---- MODULE Spec2Model ----
(***************************************************************************)
(* A model of the request/response pipeline of gatus-sdk:                  *)
(*   - decodeResponse (client.go): gzip set-up, status classification,     *)
(*     JSON decoding of the first value of the body;                       *)
(*   - doRequest (client.go): request construction and execution;          *)
(*   - GetEndpointUptimeData (endpoints.go): the two-attempt decoder that  *)
(*     first decodes an UptimeData object and falls back to a bare float;  *)
(*   - the other public operations: the one-request GET operations,        *)
(*     PushExternalEndpointResult and ValidateDuration.                    *)
(*                                                                         *)
(* A response body is a sequence of items.  An item stands for a run of    *)
(* bytes: white space, a complete JSON value (number, object, null), a     *)
(* JSON value cut off by the end of the input, a byte no JSON value can    *)
(* start with, or the magic header of a gzip stream.                       *)
(***************************************************************************)
EXTENDS Integers, Sequences, FiniteSets, TLC

VARIABLES
    client,      \* the Client: [baseURL, userAgent]
    call,        \* the operation called and its other arguments
    pc,          \* position in the operation
    key,         \* argument key
    duration,    \* argument duration
    requests,    \* the requests handed to the transport, in order
    resp,        \* the response in hand, not yet decoded ("none" status 0)
    body1,       \* state of the first response's body
    body2,       \* state of the second response's body
    err,         \* local err: the first attempt's error
    err2,        \* local err2: the second attempt's error
    data,        \* local data (UptimeData)
    uptimeFloat, \* local uptimeFloat
    result,      \* what the call returned: [data, err]
    dpc,         \* position of a single decodeResponse call
    dresp,       \* its response
    dtarget,     \* the type of its target v
    dout,        \* its outcome
    badge,       \* the URL a badge URL builder returned
    gk,          \* a GenerateKey call: [pc, group, name, key]
    nc,          \* a NewClient call: [pc, arg, opts, client, panicked]
    cc           \* concurrent calls on one client: [callers, locals]

vars == <<client, call, pc, key, duration, requests, resp, body1, body2, err, err2,
          data, uptimeFloat, result, dpc, dresp, dtarget, dout, badge, gk, nc, cc>>

callVars == <<client, call, pc, key, duration, requests, resp, body1, body2, err,
              err2, data, uptimeFloat, result>>

decodeVars == <<dpc, dresp, dtarget, dout>>

auxVars == <<badge, gk, nc, cc>>

----------------------------------------------------------------------------
(* Bounds of the model *)

\* the longest group and the longest name of a GenerateKey call, in characters
MaxPartLen == 2

\* the longest base URL passed to NewClient, in characters
MaxURLLen == 3

\* the most options passed to NewClient
MaxOpts == 2

\* the number of concurrent calls on one client
MaxCallers == 2

\* the longest response body, in items
MaxBodyLen == 2

\* the numbers a body can hold are 0..MaxNum
MaxNum == 1

\* the longest uncompressed body a server answers an uptime request with
MaxUptimeBodyLen == 1

----------------------------------------------------------------------------
(* Values *)

Nums == 0..MaxNum

\* duration labels a caller passes and a server answers with: one that
\* ValidDurations lists and one that it does not
Durations == {"24h", "48h"}

\* keys, groups and names are sequences of characters
Keys == {<<>>, <<"c", "_", "b">>}

\* response statuses: both sides of each edge of 200..299, 204, and 404
Statuses == {199, 200, 204, 299, 300, 404}

Item(t, n, d) == [t |-> t, n |-> n, d |-> d]

WS == Item("ws", 0, "")
Null == Item("null", 0, "")
Open == Item("open", 0, "")
Bad == Item("bad", 0, "")
GZ == Item("gz", 0, "")
Num(n) == Item("num", n, "")
Obj(n, d) == Item("obj", n, d)

\* the items of an uncompressed body
PlainItems ==
    {WS, Null, Open, Bad} \cup {Num(n) : n \in Nums}
        \cup {Obj(n, d) : n \in Nums, d \in Durations}

WireItems == PlainItems \cup {GZ}

SeqsUpTo(S, k) == UNION {[1..n -> S] : n \in 0..k}

\* what gzip.Writer produces for a payload: the stream header, then the payload
gzipOf(b) == <<GZ>> \o b

Min(a, b) == IF a < b THEN a ELSE b

----------------------------------------------------------------------------
(* Errors (errors.go, and the wrapped errors of client.go) *)

\* Message is a fixed phrase or the text of a response body: the phrase is
\* kept in Message, the body text in MessageText
Err(kind, code, msg, body, field) ==
    [kind |-> kind, StatusCode |-> code, Message |-> msg, MessageText |-> <<>>,
     Body |-> body, Field |-> field]

NilErr == Err("nil", 0, "", <<>>, "")

\* &APIError{StatusCode, Message, Body}
APIError(code, msg, body) == Err("APIError", code, msg, body, "")

\* &ValidationError{Field, Message}
ValidationError(field, msg) == Err("ValidationError", 0, msg, <<>>, field)

\* fmt.Errorf("<prefix>: %w", cause)
Wrapped(prefix, cause) == Err(prefix, 0, cause, <<>>, "")

IsAPIError(e) == e.kind = "APIError"

\* http.StatusText: the reason phrase of a registered status, "" otherwise
StatusText(code) ==
    CASE code = 200 -> "OK"
      [] code = 204 -> "No Content"
      [] code = 300 -> "Multiple Choices"
      [] code = 404 -> "Not Found"
      [] OTHER -> ""

----------------------------------------------------------------------------
(* Targets of a decode *)

Targets == {"UptimeData", "float64"}

UptimeDataOf(n, d) == [Uptime |-> n, Duration |-> d]

\* the targets that are structs, and those that are slices of structs
StructTargets == {"UptimeData", "EndpointStatus", "SuiteStatus", "ResponseTimeData"}
SliceTargets == {"[]EndpointStatus", "[]SuiteStatus"}

\* the zero value of a target; a struct is kept by the two fields of an object
\* item, a nil slice as the blank struct
Zero(target) == IF target # "float64" THEN UptimeDataOf(0, "") ELSE 0

----------------------------------------------------------------------------
(* json.NewDecoder(reader).Decode(v): decodes the first JSON value of the  *)
(* input into v and reads no further than it must.                         *)

\* index of the first item that is not white space, 0 if there is none
firstValue(b) ==
    LET idx == {i \in 1..Len(b) : b[i].t # "ws"}
    IN  IF idx = {} THEN 0 ELSE CHOOSE i \in idx : \A j \in idx : i <= j

\* [cause, val, read]: cause "" is success; read is how many items were read
jsonDecode(b, target) ==
    LET i == firstValue(b)
        out(cause, val, read) == [cause |-> cause, val |-> val, read |-> read]
    IN  IF i = 0 THEN out("EOF", Zero(target), Len(b))
        ELSE LET it == b[i] IN
        CASE it.t = "num" ->
                \* the end of a number shows only at the next byte or the end
                IF target = "float64"
                THEN out("", it.n, Min(i + 1, Len(b)))
                ELSE out("cannot unmarshal number", Zero(target), Min(i + 1, Len(b)))
          [] it.t = "obj" ->
                IF target \in StructTargets
                THEN out("", UptimeDataOf(it.n, it.d), i)
                ELSE out("cannot unmarshal object", Zero(target), i)
          [] it.t = "null" -> out("", Zero(target), Min(i + 1, Len(b)))
          [] it.t = "open" ->
                IF i = Len(b)
                THEN out("unexpected EOF", Zero(target), i)
                ELSE out("invalid character", Zero(target), i + 1)
          [] OTHER -> out("invalid character", Zero(target), i)

----------------------------------------------------------------------------
(* decodeResponse (client.go) *)

Response(status, ce, body) == [status |-> status, ce |-> ce, body |-> body]

isErrorStatus_OffByOne(code) == code <= 200 \/ code >= 300

\* resp.StatusCode < 200 || resp.StatusCode >= 300
isErrorStatus(code) == code < 200 \/ code >= 300

\* gzip.NewReader fails unless the body starts with the gzip header
gzipHeaderOK(body) == Len(body) > 0 /\ body[1] = GZ

gzipSetupError_AsDecode(cause) == Wrapped("decoding response", cause)

\* fmt.Errorf("creating gzip reader: %w", err)
gzipSetupError(cause) == Wrapped("creating gzip reader", cause)

errorBody_Raw(r, reader) == r.body

\* io.ReadAll(reader): the body of an API error is read through the reader
errorBody(r, reader) == reader

\* [err, val, read, closed]: val is the target after the call, read is how many
\* items of the body were read, closed whether the body was closed on return
decodeResponse(r, target) ==
    LET gz == r.ce = "gzip"
        out(e, val, read) ==
            [err |-> e, val |-> val, read |-> read, closed |-> TRUE]
    IN  IF gz /\ ~gzipHeaderOK(r.body)
        THEN out(gzipSetupError(IF Len(r.body) = 0 THEN "EOF"
                                ELSE "gzip: invalid header"),
                 Zero(target), Min(1, Len(r.body)))
        ELSE
        LET reader == IF gz THEN Tail(r.body) ELSE r.body
            off == IF gz THEN 1 ELSE 0
        IN  IF isErrorStatus(r.status)
            THEN out(APIError(r.status, StatusText(r.status), errorBody(r, reader)),
                     Zero(target), Len(r.body))
            ELSE IF r.status = 204
            THEN out(NilErr, Zero(target), off)
            ELSE LET d == jsonDecode(reader, target) IN
                 IF d.cause = "" THEN out(NilErr, d.val, off + d.read)
                 ELSE IF d.cause = "EOF" THEN out(NilErr, Zero(target), off + d.read)
                 ELSE out(Wrapped("decoding response", d.cause), Zero(target),
                          off + d.read)

----------------------------------------------------------------------------
(* doRequest (client.go) *)

GoodBaseURL == "http://status.example.org"

\* a base URL url.Parse rejects
BadBaseURL == "http://%zz"

BaseURLs == {GoodBaseURL, BadBaseURL}

\* http.NewRequestWithContext succeeds: the method is a constant of the SDK,
\* the path is escaped by the callers, so only the base URL can be malformed
requestWellFormed(c, method, path) == c.baseURL # BadBaseURL

Request(method, path, header) ==
    [method |-> method, path |-> path, header |-> header]

DefaultUserAgent == "GatusSDK/1.0"

UserAgents == {DefaultUserAgent, "MyApp/1.0"}

\* the Client NewClient builds
NewClient(baseURL, userAgent) == [baseURL |-> baseURL, userAgent |-> userAgent]

\* the clients: the default and a configured User-Agent, a malformed base URL
Clients ==
    {NewClient(GoodBaseURL, ua) : ua \in UserAgents}
        \cup {NewClient(BadBaseURL, DefaultUserAgent)}

\* the state of the ctx a caller passes
Ctxs == {"live", "cancelled"}

\* no Authorization header
NoAuthorization == <<>>

\* the headers doRequest sets
requestHeader(c) ==
    [UserAgent |-> c.userAgent, Accept |-> "application/json",
     AcceptEncoding |-> "gzip", Authorization |-> NoAuthorization]

authHeader_NoScheme(c, token) ==
    [requestHeader(c) EXCEPT !.Authorization = <<token>>]

\* the headers doRequestWithAuth sets
authHeader(c, token) ==
    [requestHeader(c) EXCEPT !.Authorization = <<"Bearer ", token>>]

\* why httpClient.Do can fail
TransportCauses == {"connection refused", "context canceled"}

\* the responses a server can give to an uptime request
UptimeStatuses == {200, 204, 404}

UptimeBodies ==
    LET plain == SeqsUpTo(PlainItems, MaxUptimeBodyLen)
    IN  plain \cup {gzipOf(b) : b \in plain}

UptimeResponses ==
    {Response(st, ce, b) : st \in UptimeStatuses, ce \in {"", "gzip"},
                           b \in UptimeBodies}

NoResponse == Response(0, "", <<>>)

\* decodeResponse has not run
NoOutcome ==
    [err |-> NilErr, val |-> UptimeDataOf(0, ""), read |-> 0, closed |-> FALSE]

httpDo_IgnoreCtx(ctx, req) ==
    {[err |-> Wrapped("executing request", cause), sent |-> TRUE,
      req |-> req, resp |-> NoResponse] : cause \in TransportCauses}
    \cup {[err |-> NilErr, sent |-> TRUE, req |-> req, resp |-> r] :
              r \in UptimeResponses}

\* the outcomes of c.httpClient.Do(req): a cancelled ctx fails the exchange
httpDo(ctx, req) ==
    IF ctx = "cancelled"
    THEN {[err |-> Wrapped("executing request", "context canceled"),
           sent |-> TRUE, req |-> req, resp |-> NoResponse]}
    ELSE {[err |-> Wrapped("executing request", cause), sent |-> TRUE,
           req |-> req, resp |-> NoResponse] : cause \in TransportCauses}
         \cup {[err |-> NilErr, sent |-> TRUE, req |-> req, resp |-> r] :
                   r \in UptimeResponses}

notCreated_Sent(req) ==
    {[err |-> Wrapped("creating request", "parse error"), sent |-> TRUE,
      req |-> req, resp |-> NoResponse]}

\* the request was not built
notCreated(req) ==
    {[err |-> Wrapped("creating request", "parse error"), sent |-> FALSE,
      req |-> req, resp |-> NoResponse]}

\* the outcomes of doRequest: [err, sent, req, resp]; sent tells whether the
\* request was handed to the transport
doRequest(c, ctx, method, path) ==
    IF ~requestWellFormed(c, method, path)
    THEN notCreated(Request(method, path, requestHeader(c)))
    ELSE httpDo(ctx, Request(method, path, requestHeader(c)))

\* the outcomes of doRequestWithAuth
doRequestWithAuth(c, ctx, method, path, token) ==
    IF ~requestWellFormed(c, method, path)
    THEN notCreated(Request(method, path, authHeader(c, token)))
    ELSE httpDo(ctx, Request(method, path, authHeader(c, token)))

----------------------------------------------------------------------------
(* GetEndpointUptimeData (endpoints.go) *)

\* a returned *UptimeData
NilPtr == [nil |-> TRUE, v |-> UptimeDataOf(0, "")]
Ptr(d) == [nil |-> FALSE, v |-> d]

Returned(d, e) == [data |-> d, err |-> e]

NotReturned == Returned(NilPtr, Err("pending", 0, "", <<>>, ""))

NoBody == [state |-> "none", drained |-> FALSE]
OpenBody == [state |-> "open", drained |-> FALSE]

bodyAfter_CloseOnSuccessOnly(o, r) ==
    [state |-> IF o.closed /\ o.err = NilErr THEN "closed" ELSE "open",
     drained |-> o.read = Len(r.body)]

\* a body after decodeResponse returned: o is its outcome, r the response
bodyAfter(o, r) ==
    [state |-> IF o.closed THEN "closed" ELSE "open",
     drained |-> o.read = Len(r.body)]

uptimePath(k, d) == <<"/api/v1/endpoints", k, "uptimes", d>>

bothFailed_Second(e1, e2) == e2

bothFailed_SecondUnlessAPI(e1, e2) == IF IsAPIError(e1) THEN e1 ELSE e2

bothFailed_PreferAPI(e1, e2) == IF IsAPIError(e2) THEN e2 ELSE e1

\* the error returned when both attempts failed: e1 the first, e2 the second
bothFailed(e1, e2) == IF IsAPIError(e1) THEN e1 ELSE e1

afterFirstRequest_Retry(e) == IF e # NilErr THEN "req2" ELSE "dec1"

\* where the call goes after the first doRequest returned e
afterFirstRequest(e) == IF e # NilErr THEN "done" ELSE "dec1"

afterFirstDecode_AlwaysFallBack(e) == "req2"

\* where the call goes after the first decodeResponse returned e
afterFirstDecode(e) == IF e = NilErr THEN "done" ELSE "req2"

secondSucceeded_UnlessAPI(e1, e2) == e2 = NilErr /\ ~IsAPIError(e1)

\* the second decodeResponse returned no error: e1 the first error, e2 the second
secondSucceeded(e1, e2) == e2 = NilErr

fallbackData_NoDuration(f, d) == UptimeDataOf(f, "")

\* UptimeData{Uptime: uptimeFloat, Duration: duration}
fallbackData(f, d) == UptimeDataOf(f, d)

\* the operation called, the ctx passed, and the arguments besides key and
\* duration
CallOf(op, ctx, group, name, token, success, errorMessage) ==
    [op |-> op, ctx |-> ctx, group |-> group, name |-> name, token |-> token,
     success |-> success, errorMessage |-> errorMessage]

NoCall == CallOf("none", "live", <<>>, <<>>, "", FALSE, "")

\* a client under construction: the base address as characters
ClientOf(baseURL, httpClient, userAgent) ==
    [baseURL |-> baseURL, httpClient |-> httpClient, userAgent |-> userAgent]

\* a *http.Client: nil, or its Timeout in seconds
HTTPClient(timeout) == [nil |-> FALSE, Timeout |-> timeout]

NilHTTPClient == [nil |-> TRUE, Timeout |-> 0]

\* no GenerateKey call, no NewClient call and no concurrent calls are under way
NoKeyCall == [pc |-> "off", group |-> <<>>, name |-> <<>>, key |-> <<>>]

NoNewClient ==
    [pc |-> "off", arg |-> <<>>, opts |-> <<>>,
     client |-> ClientOf(<<>>, NilHTTPClient, ""), panicked |-> FALSE]

NoCallers == [callers |-> <<>>, locals |-> <<>>]

auxOff ==
    /\ badge = <<>>
    /\ gk = NoKeyCall
    /\ nc = NoNewClient
    /\ cc = NoCallers

Init ==
    /\ auxOff
    /\ client \in Clients
    /\ call = NoCall
    /\ pc = "idle"
    /\ key = <<>>
    /\ duration = ""
    /\ requests = <<>>
    /\ resp = NoResponse
    /\ body1 = NoBody
    /\ body2 = NoBody
    /\ err = NilErr
    /\ err2 = NilErr
    /\ data = UptimeDataOf(0, "")
    /\ uptimeFloat = 0
    /\ result = NotReturned
    /\ dpc = "off"
    /\ dresp = NoResponse
    /\ dtarget = "UptimeData"
    /\ dout = NoOutcome

\* the call and its argument check
Call ==
    /\ pc = "idle"
    /\ \E k \in Keys, d \in Durations, c \in Ctxs :
          /\ call' = CallOf("GetEndpointUptimeData", c, <<>>, <<>>, "", FALSE, "")
          /\ key' = k
          /\ duration' = d
          /\ IF k = <<>>
             THEN /\ result' = Returned(NilPtr, ValidationError("key", "cannot be empty"))
                  /\ pc' = "done"
             ELSE /\ result' = result
                  /\ pc' = "req1"
    /\ UNCHANGED <<client, requests, resp, body1, body2, err, err2, data,
                   uptimeFloat>>
    /\ UNCHANGED decodeVars
    /\ UNCHANGED auxVars

\* the first doRequest
FirstRequest ==
    /\ pc = "req1"
    /\ \E o \in doRequest(client, call.ctx, "GET", uptimePath(key, duration)) :
          /\ requests' = IF o.sent THEN Append(requests, o.req) ELSE requests
          /\ pc' = afterFirstRequest(o.err)
          /\ IF o.err # NilErr
             THEN /\ err' = o.err
                  /\ result' = Returned(NilPtr, o.err)
                  /\ UNCHANGED <<resp, body1>>
             ELSE /\ resp' = o.resp
                  /\ body1' = OpenBody
                  /\ UNCHANGED <<err, result>>
    /\ UNCHANGED <<client, call, key, duration, body2, err2, data, uptimeFloat>>
    /\ UNCHANGED decodeVars
    /\ UNCHANGED auxVars

\* decodeResponse(resp, &data)
DecodeFirst ==
    /\ pc = "dec1"
    /\ LET o == decodeResponse(resp, "UptimeData") IN
          /\ body1' = bodyAfter(o, resp)
          /\ resp' = NoResponse
          /\ err' = o.err
          /\ data' = o.val
          /\ pc' = afterFirstDecode(o.err)
          /\ IF o.err = NilErr
             THEN result' = Returned(Ptr(o.val), NilErr)
             ELSE result' = result
    /\ UNCHANGED <<client, call, key, duration, requests, body2, err2, uptimeFloat>>
    /\ UNCHANGED decodeVars
    /\ UNCHANGED auxVars

\* the second doRequest, after a failed first decode
SecondRequest ==
    /\ pc = "req2"
    /\ \E o \in doRequest(client, call.ctx, "GET", uptimePath(key, duration)) :
          /\ requests' = IF o.sent THEN Append(requests, o.req) ELSE requests
          /\ err2' = o.err
          /\ IF o.err # NilErr
             THEN /\ result' = Returned(NilPtr, err)
                  /\ pc' = "done"
                  /\ UNCHANGED <<resp, body2>>
             ELSE /\ resp' = o.resp
                  /\ body2' = OpenBody
                  /\ pc' = "dec2"
                  /\ UNCHANGED result
    /\ UNCHANGED <<client, call, key, duration, body1, err, data, uptimeFloat>>
    /\ UNCHANGED decodeVars
    /\ UNCHANGED auxVars

\* decodeResponse(resp2, &uptimeFloat) and the return
DecodeSecond ==
    /\ pc = "dec2"
    /\ LET o == decodeResponse(resp, "float64") IN
          /\ body2' = bodyAfter(o, resp)
          /\ resp' = NoResponse
          /\ err2' = o.err
          /\ uptimeFloat' = o.val
          /\ IF ~secondSucceeded(err, o.err)
             THEN /\ result' = Returned(NilPtr, bothFailed(err, o.err))
                  /\ data' = data
             ELSE /\ data' = fallbackData(o.val, duration)
                  /\ result' = Returned(Ptr(fallbackData(o.val, duration)), NilErr)
          /\ pc' = "done"
    /\ UNCHANGED <<client, call, key, duration, requests, body1, err>>
    /\ UNCHANGED decodeVars
    /\ UNCHANGED auxVars

Next == Call \/ FirstRequest \/ DecodeFirst \/ SecondRequest \/ DecodeSecond

Spec == Init /\ [][Next]_vars

----------------------------------------------------------------------------
(* GenerateKey (keys.go) *)

Replaced_Old == {"/", "_", ",", ".", "#"}

Replaced_KeepUnderscore == {"/", ",", ".", "#", "+", "&"}

\* the characters the replacer turns into "-"
Replaced == {"/", "_", ",", ".", "#", "+", "&"}

\* replacer.Replace(s)
sanitize(s) == [i \in 1..Len(s) |-> IF s[i] \in Replaced THEN "-" ELSE s[i]]

GenerateKey(group, name) ==
    IF Len(sanitize(group)) = 0
    THEN <<"_">> \o sanitize(name)
    ELSE sanitize(group) \o <<"_">> \o sanitize(name)

----------------------------------------------------------------------------
(* ValidateDuration (the endpoints.go that validates durations) *)

ValidDurations_Three == <<"1h", "24h", "7d">>

ValidDurations == <<"1h", "24h", "7d", "30d">>

ValidateDuration(d) ==
    IF \E i \in 1..Len(ValidDurations) : d = ValidDurations[i]
    THEN NilErr
    ELSE ValidationError("duration", "must be one of: [1h 24h 7d 30d]")

\* the strings ValidateDuration is called with
DurationStrings ==
    {"", "1h", "24h", "7d", "30d", "48h", "1d", "24H", " 24h", "24h ", "24", "h",
     "7days", "30"}

----------------------------------------------------------------------------
(* The operations of one request (endpoints.go, suites.go) *)

Groups == {<<>>, <<"a", "/">>}

Names == {<<>>, <<"b", ".">>}

Tokens == {"", "potato"}

ErrorMessages == {"", "timeout"}

\* the duration of a pushed result
PushDurations == {"", "10s"}

NoArgOps == {"GetAllEndpointStatuses", "GetAllSuiteStatuses"}

ByKeyOps == {"GetEndpointStatusByKey", "GetSuiteStatusByKey",
             "GetEndpointResponseTimes"}

ByNameOps == {"GetEndpointStatus", "GetSuiteStatus"}

GetOps == NoArgOps \cup ByKeyOps \cup ByNameOps

\* the path of the request of a GET operation
getPath(op, k, d) ==
    CASE op = "GetAllEndpointStatuses" -> <<"/api/v1/endpoints/statuses">>
      [] op = "GetAllSuiteStatuses" -> <<"/api/v1/suites/statuses">>
      [] op \in {"GetEndpointStatusByKey", "GetEndpointStatus"} ->
            <<"/api/v1/endpoints", k, "statuses">>
      [] op \in {"GetSuiteStatusByKey", "GetSuiteStatus"} ->
            <<"/api/v1/suites", k, "statuses">>
      [] op = "GetEndpointResponseTimes" ->
            <<"/api/v1/endpoints", k, "response-times", d>>

\* the type of the variable a GET operation decodes into
opTarget(op) ==
    CASE op = "GetAllEndpointStatuses" -> "[]EndpointStatus"
      [] op = "GetAllSuiteStatuses" -> "[]SuiteStatus"
      [] op \in {"GetEndpointStatusByKey", "GetEndpointStatus"} -> "EndpointStatus"
      [] op \in {"GetSuiteStatusByKey", "GetSuiteStatus"} -> "SuiteStatus"
      [] op = "GetEndpointResponseTimes" -> "ResponseTimeData"

keyCheck(k) ==
    IF k = <<>> THEN ValidationError("key", "cannot be empty") ELSE NilErr

nameCheck(n) ==
    IF n = <<>> THEN ValidationError("name", "cannot be empty") ELSE NilErr

byNameKey_Swapped(g, n) == GenerateKey(n, g)

\* key := GenerateKey(group, name), handed to the by-key operation
byNameKey(g, n) == GenerateKey(g, n)

\* the argument checks of a GET operation: a by-name operation checks the name
\* and hands the generated key to the by-key operation, which checks the key
getCheck(op, k, g, n) ==
    CASE op \in NoArgOps -> NilErr
      [] op \in ByKeyOps -> keyCheck(k)
      [] op \in ByNameOps ->
            IF nameCheck(n) # NilErr THEN nameCheck(n)
            ELSE keyCheck(byNameKey(g, n))

\* a GET operation is called and checks its arguments
CallGet ==
    /\ pc = "idle"
    /\ \E op \in GetOps, c \in Ctxs, k \in Keys, g \in Groups, n \in Names,
          d \in Durations :
          /\ call' = CallOf(op, c, IF op \in ByNameOps THEN g ELSE <<>>,
                            IF op \in ByNameOps THEN n ELSE <<>>, "", FALSE, "")
          /\ key' = CASE op \in ByKeyOps -> k
                      [] op \in ByNameOps /\ nameCheck(n) = NilErr -> byNameKey(g, n)
                      [] OTHER -> <<>>
          /\ duration' = IF op = "GetEndpointResponseTimes" THEN d ELSE ""
          /\ IF getCheck(op, k, g, n) # NilErr
             THEN /\ result' = Returned(NilPtr, getCheck(op, k, g, n))
                  /\ pc' = "done"
             ELSE /\ result' = result
                  /\ pc' = "sreq"
    /\ UNCHANGED <<client, requests, resp, body1, body2, err, err2, data,
                   uptimeFloat>>
    /\ UNCHANGED decodeVars
    /\ UNCHANGED auxVars

\* its doRequest
GetRequest ==
    /\ pc = "sreq"
    /\ \E o \in doRequest(client, call.ctx, "GET", getPath(call.op, key, duration)) :
          /\ requests' = IF o.sent THEN Append(requests, o.req) ELSE requests
          /\ IF o.err # NilErr
             THEN /\ err' = o.err
                  /\ result' = Returned(NilPtr, o.err)
                  /\ pc' = "done"
                  /\ UNCHANGED <<resp, body1>>
             ELSE /\ resp' = o.resp
                  /\ body1' = OpenBody
                  /\ pc' = "sdec"
                  /\ UNCHANGED <<err, result>>
    /\ UNCHANGED <<client, call, key, duration, body2, err2, data, uptimeFloat>>
    /\ UNCHANGED decodeVars
    /\ UNCHANGED auxVars

\* its decodeResponse, and its return
GetDecode ==
    /\ pc = "sdec"
    /\ LET o == decodeResponse(resp, opTarget(call.op)) IN
          /\ body1' = bodyAfter(o, resp)
          /\ resp' = NoResponse
          /\ err' = o.err
          /\ data' = o.val
          /\ result' = IF o.err # NilErr THEN Returned(NilPtr, o.err)
                       ELSE Returned(Ptr(o.val), NilErr)
          /\ pc' = "done"
    /\ UNCHANGED <<client, call, key, duration, requests, body2, err2, uptimeFloat>>
    /\ UNCHANGED decodeVars
    /\ UNCHANGED auxVars

----------------------------------------------------------------------------
(* PushExternalEndpointResult (endpoints.go) *)

\* params.Encode(): the query parameters that are set
pushParams(success, errorMessage, d) ==
    {<<"success", IF success THEN "true" ELSE "false">>}
        \cup (IF errorMessage # "" THEN {<<"error", errorMessage>>} ELSE {})
        \cup (IF d # "" THEN {<<"duration", d>>} ELSE {})

pushPath(k, params) == <<"/api/v1/endpoints", k, "external", params>>

tokenCheck_None(t) == NilErr

tokenCheck(t) ==
    IF t = "" THEN ValidationError("token", "cannot be empty") ELSE NilErr

pushCheck(k, t) == IF keyCheck(k) # NilErr THEN keyCheck(k) ELSE tokenCheck(t)

\* &APIError{StatusCode, Message: string(body)}
pushAPIError(code, body) == [APIError(code, "", <<>>) EXCEPT !.MessageText = body]

pushBodyAfter_NoDefer(r, read) ==
    [state |-> "open", drained |-> read = Len(r.body)]

\* the body once the deferred resp.Body.Close() has run
pushBodyAfter(r, read) ==
    [state |-> "closed", drained |-> read = Len(r.body)]

CallPush ==
    /\ pc = "idle"
    /\ \E c \in Ctxs, k \in Keys, t \in Tokens, s \in BOOLEAN,
          m \in ErrorMessages, d \in PushDurations :
          /\ call' = CallOf("PushExternalEndpointResult", c, <<>>, <<>>, t, s, m)
          /\ key' = k
          /\ duration' = d
          /\ IF pushCheck(k, t) # NilErr
             THEN /\ result' = Returned(NilPtr, pushCheck(k, t))
                  /\ pc' = "done"
             ELSE /\ result' = result
                  /\ pc' = "preq"
    /\ UNCHANGED <<client, requests, resp, body1, body2, err, err2, data,
                   uptimeFloat>>
    /\ UNCHANGED decodeVars
    /\ UNCHANGED auxVars

\* its doRequestWithAuth
PushRequest ==
    /\ pc = "preq"
    /\ \E o \in doRequestWithAuth(client, call.ctx, "POST",
                   pushPath(key, pushParams(call.success, call.errorMessage, duration)),
                   call.token) :
          /\ requests' = IF o.sent THEN Append(requests, o.req) ELSE requests
          /\ IF o.err # NilErr
             THEN /\ err' = o.err
                  /\ result' = Returned(NilPtr, o.err)
                  /\ pc' = "done"
                  /\ UNCHANGED <<resp, body1>>
             ELSE /\ resp' = o.resp
                  /\ body1' = OpenBody
                  /\ pc' = "pfin"
                  /\ UNCHANGED <<err, result>>
    /\ UNCHANGED <<client, call, key, duration, body2, err2, data, uptimeFloat>>
    /\ UNCHANGED decodeVars
    /\ UNCHANGED auxVars

\* the status check, and the return; readOK tells whether io.ReadAll succeeds
PushFinish ==
    /\ pc = "pfin"
    /\ \E readOK \in BOOLEAN :
          /\ readOK \/ isErrorStatus(resp.status)
          /\ LET e == IF ~isErrorStatus(resp.status) THEN NilErr
                      ELSE IF readOK THEN pushAPIError(resp.status, resp.body)
                      ELSE APIError(resp.status, StatusText(resp.status), <<>>)
                 read == IF isErrorStatus(resp.status) /\ readOK
                         THEN Len(resp.body) ELSE 0
             IN  /\ body1' = pushBodyAfter(resp, read)
                 /\ err' = e
                 /\ result' = Returned(NilPtr, e)
    /\ resp' = NoResponse
    /\ pc' = "done"
    /\ UNCHANGED <<client, call, key, duration, requests, body2, err2, data,
                   uptimeFloat>>
    /\ UNCHANGED decodeVars
    /\ UNCHANGED auxVars

\* ValidateDuration is called and returns
CallValidateDuration ==
    /\ pc = "idle"
    /\ \E d \in DurationStrings :
          /\ call' = CallOf("ValidateDuration", "live", <<>>, <<>>, "", FALSE, "")
          /\ duration' = d
          /\ result' = Returned(NilPtr, ValidateDuration(d))
    /\ pc' = "done"
    /\ UNCHANGED <<client, key, requests, resp, body1, body2, err, err2, data,
                   uptimeFloat>>
    /\ UNCHANGED decodeVars
    /\ UNCHANGED auxVars

----------------------------------------------------------------------------
(* The badge URL builders (endpoints.go), and the caller's next call *)

BadgeOps == {"GetEndpointUptimeBadgeURL", "GetEndpointHealthBadgeURL",
             "GetEndpointResponseTimeBadgeURL"}

\* fmt.Sprintf of the base address, the key and the duration
badgeURL(c, op, k, d) ==
    CASE op = "GetEndpointUptimeBadgeURL" ->
            <<c.baseURL, "/api/v1/endpoints", k, "uptimes", d, "badge.svg">>
      [] op = "GetEndpointHealthBadgeURL" ->
            <<c.baseURL, "/api/v1/endpoints", k, "health", "badge.svg">>
      [] op = "GetEndpointResponseTimeBadgeURL" ->
            <<c.baseURL, "/api/v1/endpoints", k, "response-times", d, "badge.svg">>

\* a badge URL builder is called and returns
CallBadgeURL ==
    /\ pc = "idle"
    /\ \E op \in BadgeOps, k \in Keys, d \in Durations :
          /\ call' = CallOf(op, "live", <<>>, <<>>, "", FALSE, "")
          /\ key' = k
          /\ duration' = IF op = "GetEndpointHealthBadgeURL" THEN "" ELSE d
          /\ badge' = badgeURL(client, op, k,
                               IF op = "GetEndpointHealthBadgeURL" THEN "" ELSE d)
    /\ pc' = "done"
    /\ UNCHANGED <<client, requests, resp, body1, body2, err, err2, data,
                   uptimeFloat, result>>
    /\ UNCHANGED decodeVars
    /\ UNCHANGED <<gk, nc, cc>>

clientAfter_ResetUserAgent(c) == [c EXCEPT !.userAgent = DefaultUserAgent]

\* the Client once an operation has returned: the operations read the fields
\* of their receiver and assign none
clientAfter(c) == c

\* the operation has returned and its locals are gone; the caller may call
\* the client again
CallerContinues ==
    /\ pc = "done"
    /\ client' = clientAfter(client)
    /\ call' = NoCall
    /\ pc' = "idle"
    /\ key' = <<>>
    /\ duration' = ""
    /\ requests' = <<>>
    /\ resp' = NoResponse
    /\ body1' = NoBody
    /\ body2' = NoBody
    /\ err' = NilErr
    /\ err2' = NilErr
    /\ data' = UptimeDataOf(0, "")
    /\ uptimeFloat' = 0
    /\ result' = NotReturned
    /\ badge' = <<>>
    /\ UNCHANGED decodeVars
    /\ UNCHANGED <<gk, nc, cc>>

\* every public operation
NextOps ==
    \/ Next
    \/ CallGet \/ GetRequest \/ GetDecode
    \/ CallPush \/ PushRequest \/ PushFinish
    \/ CallValidateDuration
    \/ CallBadgeURL
    \/ CallerContinues

SpecOps == Init /\ [][NextOps]_vars

----------------------------------------------------------------------------
(* decodeResponse on its own: every response, both targets *)

\* every body up to the bound, and the gzip stream of every uncompressed one
WireBodies ==
    SeqsUpTo(WireItems, MaxBodyLen)
        \cup {gzipOf(b) : b \in SeqsUpTo(PlainItems, MaxBodyLen)}

AllResponses ==
    {Response(st, ce, b) : st \in Statuses, ce \in {"", "gzip"}, b \in WireBodies}

InitDecode ==
    /\ auxOff
    /\ client = NewClient(GoodBaseURL, DefaultUserAgent)
    /\ call = NoCall
    /\ pc = "off"
    /\ key = <<>>
    /\ duration = ""
    /\ requests = <<>>
    /\ resp = NoResponse
    /\ body1 = NoBody
    /\ body2 = NoBody
    /\ err = NilErr
    /\ err2 = NilErr
    /\ data = UptimeDataOf(0, "")
    /\ uptimeFloat = 0
    /\ result = NotReturned
    /\ dpc = "start"
    /\ dresp \in AllResponses
    /\ dtarget \in Targets
    /\ dout = NoOutcome

DecodeResponse ==
    /\ dpc = "start"
    /\ dout' = decodeResponse(dresp, dtarget)
    /\ dpc' = "done"
    /\ UNCHANGED <<dresp, dtarget>>
    /\ UNCHANGED callVars
    /\ UNCHANGED auxVars

NextDecode == DecodeResponse

SpecDecode == InitDecode /\ [][NextDecode]_vars

----------------------------------------------------------------------------
(* GenerateKey on its own: every group and name up to the bound *)

\* no operation of the client and no decodeResponse is under way
opsOff ==
    /\ client = NewClient(GoodBaseURL, DefaultUserAgent)
    /\ call = NoCall
    /\ pc = "off"
    /\ key = <<>>
    /\ duration = ""
    /\ requests = <<>>
    /\ resp = NoResponse
    /\ body1 = NoBody
    /\ body2 = NoBody
    /\ err = NilErr
    /\ err2 = NilErr
    /\ data = UptimeDataOf(0, "")
    /\ uptimeFloat = 0
    /\ result = NotReturned
    /\ dpc = "off"
    /\ dresp = NoResponse
    /\ dtarget = "UptimeData"
    /\ dout = NoOutcome

\* the characters of a group or a name: the seven the replacer replaces, the
\* hyphen, a space and a letter outside ASCII
KeyChars == {"/", "_", ",", ".", "#", "+", "&", "-", " ", "é"}

KeyParts == SeqsUpTo(KeyChars, MaxPartLen)

InitKey ==
    /\ opsOff
    /\ badge = <<>>
    /\ nc = NoNewClient
    /\ cc = NoCallers
    /\ \E g \in KeyParts, n \in KeyParts :
          gk = [pc |-> "start", group |-> g, name |-> n, key |-> <<>>]

CallGenerateKey ==
    /\ gk.pc = "start"
    /\ gk' = [gk EXCEPT !.pc = "done", !.key = GenerateKey(gk.group, gk.name)]
    /\ UNCHANGED <<callVars, decodeVars, badge, nc, cc>>

NextKey == CallGenerateKey

SpecKey == InitKey /\ [][NextKey]_vars

----------------------------------------------------------------------------
(* NewClient and its options (client.go), and the first use of the client *)

DefaultTimeout == 30

URLChars == {"h", "/"}

\* the base URLs passed to NewClient
BaseURLArgs == SeqsUpTo(URLChars, MaxURLLen)

Option(opt, httpClient, timeout, userAgent) ==
    [opt |-> opt, httpClient |-> httpClient, timeout |-> timeout,
     userAgent |-> userAgent]

WithHTTPClient(httpClient) == Option("WithHTTPClient", httpClient, 0, "")

WithTimeout(timeout) == Option("WithTimeout", NilHTTPClient, timeout, "")

WithUserAgent(userAgent) == Option("WithUserAgent", NilHTTPClient, 0, userAgent)

\* the options a caller passes: a nil and a custom *http.Client among them
Options ==
    {WithHTTPClient(NilHTTPClient), WithHTTPClient(HTTPClient(5)),
     WithTimeout(10), WithUserAgent("MyApp/1.0")}

\* strings.TrimSuffix(s, suffix), suffix one character
TrimSuffix(s, suffix) ==
    IF Len(s) > 0 /\ s[Len(s)] = suffix THEN SubSeq(s, 1, Len(s) - 1) ELSE s

\* opt(client): [client, panicked]; c.httpClient.Timeout = timeout dereferences
\* c.httpClient
applyOption(c, o) ==
    CASE o.opt = "WithHTTPClient" ->
            [client |-> [c EXCEPT !.httpClient = o.httpClient], panicked |-> FALSE]
      [] o.opt = "WithTimeout" ->
            IF c.httpClient.nil THEN [client |-> c, panicked |-> TRUE]
            ELSE [client |-> [c EXCEPT !.httpClient.Timeout = o.timeout],
                  panicked |-> FALSE]
      [] o.opt = "WithUserAgent" ->
            [client |-> [c EXCEPT !.userAgent = o.userAgent], panicked |-> FALSE]

InitNew ==
    /\ opsOff
    /\ badge = <<>>
    /\ gk = NoKeyCall
    /\ cc = NoCallers
    /\ nc \in {[NoNewClient EXCEPT !.pc = "new", !.arg = a, !.opts = os] :
                  a \in BaseURLArgs, os \in SeqsUpTo(Options, MaxOpts)}

\* NewClient up to its loop over the options
BuildClient ==
    /\ nc.pc = "new"
    /\ nc' = [nc EXCEPT !.pc = "opts",
                        !.client = ClientOf(TrimSuffix(nc.arg, "/"),
                                            HTTPClient(DefaultTimeout),
                                            DefaultUserAgent)]
    /\ UNCHANGED <<callVars, decodeVars, badge, gk, cc>>

\* one turn of the loop: opt(client)
ApplyOption ==
    /\ nc.pc = "opts" /\ nc.opts # <<>>
    /\ LET o == applyOption(nc.client, Head(nc.opts)) IN
          nc' = IF o.panicked
                THEN [nc EXCEPT !.pc = "panicked", !.panicked = TRUE]
                ELSE [nc EXCEPT !.client = o.client, !.opts = Tail(nc.opts)]
    /\ UNCHANGED <<callVars, decodeVars, badge, gk, cc>>

\* return client
ReturnClient ==
    /\ nc.pc = "opts" /\ nc.opts = <<>>
    /\ nc' = [nc EXCEPT !.pc = "built"]
    /\ UNCHANGED <<callVars, decodeVars, badge, gk, cc>>

\* an operation on the built client reaches c.httpClient.Do(req), which
\* dereferences c.httpClient
UseClient ==
    /\ nc.pc = "built"
    /\ nc' = IF nc.client.httpClient.nil
             THEN [nc EXCEPT !.pc = "panicked", !.panicked = TRUE]
             ELSE [nc EXCEPT !.pc = "used"]
    /\ UNCHANGED <<callVars, decodeVars, badge, gk, cc>>

NextNew == BuildClient \/ ApplyOption \/ ReturnClient \/ UseClient

SpecNew == InitNew /\ [][NextNew]_vars

----------------------------------------------------------------------------
(* Concurrent calls on one Client: each call is a goroutine with its own   *)
(* locals; the steps of the calls interleave.                              *)

Callers == 1..MaxCallers

ConcOps == {"GetEndpointStatusByKey", "GetEndpointUptimeData"}

ConcKeys == {<<"k", "1">>, <<"k", "2">>}

ConcDuration == "24h"

\* the responses a server gives to a concurrent call
ConcResponses ==
    {Response(200, "", <<Obj(1, "24h")>>), Response(200, "", <<Num(1)>>),
     Response(404, "", <<Bad>>)}

\* the outcomes of c.httpClient.Do(req) for a concurrent call
concDo(req) ==
    {[err |-> Wrapped("executing request", "connection refused"),
      req |-> req, resp |-> NoResponse]}
        \cup {[err |-> NilErr, req |-> req, resp |-> r] : r \in ConcResponses}

\* the path of the request of a concurrent call
concPath(op, k) ==
    IF op = "GetEndpointUptimeData" THEN uptimePath(k, ConcDuration)
    ELSE getPath(op, k, "")

\* the type the first decodeResponse of a call decodes into
concTarget(op) ==
    IF op = "GetEndpointUptimeData" THEN "UptimeData" ELSE opTarget(op)

\* a call: its position, its arguments, the outcomes of its own requests, the
\* requests it issued and what it returned
CallerOf(cpc, op, k, got, reqs, res) ==
    [pc |-> cpc, op |-> op, key |-> k, got |-> got, reqs |-> reqs, result |-> res]

IdleCaller == CallerOf("idle", "none", <<>>, <<>>, <<>>, NotReturned)

\* the locals of a call: path, resp and err
LocalsOf(path, r, e) == [path |-> path, resp |-> r, err |-> e]

NoLocals == LocalsOf(<<>>, NoResponse, NilErr)

slot_Shared(p) == 1

\* where the locals of call p live: on the stack of its own goroutine
slot(p) == p

InitConc ==
    /\ opsOff
    /\ badge = <<>>
    /\ gk = NoKeyCall
    /\ nc = NoNewClient
    /\ cc = [callers |-> [p \in Callers |-> IdleCaller],
             locals |-> [p \in Callers |-> NoLocals]]

\* call p begins: the key check has passed and the path is built
ConcCall(p) ==
    /\ cc.callers[p].pc = "idle"
    /\ \E op \in ConcOps, k \in ConcKeys :
          cc' = [callers |-> [cc.callers EXCEPT
                                 ![p] = CallerOf("req1", op, k, <<>>, <<>>,
                                                 NotReturned)],
                 locals |-> [cc.locals EXCEPT
                                ![slot(p)] = LocalsOf(concPath(op, k), NoResponse,
                                                      NilErr)]]
    /\ UNCHANGED <<callVars, decodeVars, badge, gk, nc>>

\* a doRequest of call p, the first or the second
ConcRequest(p) ==
    LET me == cc.callers[p]
        my == cc.locals[slot(p)]
    IN  /\ me.pc \in {"req1", "req2"}
        /\ \E o \in concDo(Request("GET", my.path, requestHeader(client))) :
              LET got == Append(me.got, [err |-> o.err, resp |-> o.resp])
                  reqs == Append(me.reqs, o.req)
              IN  cc' = IF o.err # NilErr
                        THEN [cc EXCEPT
                                 !.callers[p] =
                                     CallerOf("done", me.op, me.key, got, reqs,
                                              Returned(NilPtr,
                                                       IF me.pc = "req1" THEN o.err
                                                       ELSE my.err))]
                        ELSE [callers |-> [cc.callers EXCEPT
                                              ![p] = CallerOf(
                                                  IF me.pc = "req1" THEN "dec1"
                                                  ELSE "dec2",
                                                  me.op, me.key, got, reqs,
                                                  me.result)],
                              locals |-> [cc.locals EXCEPT
                                             ![slot(p)] = LocalsOf(my.path, o.resp,
                                                                   my.err)]]
        /\ UNCHANGED <<callVars, decodeVars, badge, gk, nc>>

\* what call p returns after a decodeResponse, or "again" with the error kept
concAfterDecode(me, my) ==
    IF me.pc = "dec1"
    THEN LET o == decodeResponse(my.resp, concTarget(me.op)) IN
         IF o.err = NilErr THEN [again |-> FALSE, err |-> NilErr,
                                 result |-> Returned(Ptr(o.val), NilErr)]
         ELSE IF me.op = "GetEndpointUptimeData"
         THEN [again |-> TRUE, err |-> o.err, result |-> me.result]
         ELSE [again |-> FALSE, err |-> o.err, result |-> Returned(NilPtr, o.err)]
    ELSE LET o == decodeResponse(my.resp, "float64") IN
         IF secondSucceeded(my.err, o.err)
         THEN [again |-> FALSE, err |-> my.err,
               result |-> Returned(Ptr(fallbackData(o.val, ConcDuration)), NilErr)]
         ELSE [again |-> FALSE, err |-> my.err,
               result |-> Returned(NilPtr, bothFailed(my.err, o.err))]

\* a decodeResponse of call p, the first or the second
ConcDecode(p) ==
    LET me == cc.callers[p]
        my == cc.locals[slot(p)]
    IN  /\ me.pc \in {"dec1", "dec2"}
        /\ LET a == concAfterDecode(me, my) IN
              cc' = [callers |-> [cc.callers EXCEPT
                                     ![p] = CallerOf(
                                         IF a.again THEN "req2" ELSE "done",
                                         me.op, me.key, me.got, me.reqs, a.result)],
                     locals |-> [cc.locals EXCEPT
                                    ![slot(p)] = LocalsOf(my.path, NoResponse, a.err)]]
        /\ UNCHANGED <<callVars, decodeVars, badge, gk, nc>>

NextConc == \E p \in Callers : ConcCall(p) \/ ConcRequest(p) \/ ConcDecode(p)

SpecConc == InitConc /\ [][NextConc]_vars

----------------------------------------------------------------------------
(* Properties of GetEndpointUptimeData, checked under Spec *)

Returns == pc = "done"

\* the first attempt got a response and decoding it failed
FirstDecodeFailed == body1.state = "closed" /\ err # NilErr

\* the second attempt got a response and decoding it failed
SecondDecodeFailed == body2.state = "closed" /\ err2 # NilErr

DecodeErrorKinds == {"decoding response", "creating gzip reader"}

\* C1: when the first attempt fails with an API error and decoding the second
\* response fails too, the call returns the first attempt's API error, with
\* its status code and body, and not a decode error.
C1_FirstAPIErrorReturned ==
    (Returns /\ FirstDecodeFailed /\ IsAPIError(err) /\ SecondDecodeFailed)
        => /\ result = Returned(NilPtr, err)
           /\ result.err.StatusCode = err.StatusCode
           /\ result.err.Body = err.Body
           /\ result.err.kind \notin DecodeErrorKinds

C1_Witness ==
    /\ Returns
    /\ IsAPIError(err) /\ err.StatusCode = 404 /\ err.Body = <<Bad>>
    /\ body2.state = "closed" /\ err2.kind = "decoding response"
    /\ result = Returned(NilPtr, err)

\* C2: when decoding the first response fails and the second response
\* decodes as the bare number n, the call returns no error and the data
\* {Uptime: n, Duration: d}, d being the duration the caller passed.
C2_FallbackUsesCallerDuration ==
    [][(pc = "dec2" /\ FirstDecodeFailed)
          => LET o == decodeResponse(resp, "float64") IN
             o.err = NilErr
                => /\ pc' = "done"
                   /\ result' = Returned(Ptr(UptimeDataOf(o.val, duration)), NilErr)
                   /\ duration' = duration]_vars

C2_Witness ==
    /\ Returns /\ FirstDecodeFailed
    /\ body2.state = "closed" /\ err2 = NilErr
    /\ uptimeFloat = 1 /\ duration = "24h"
    /\ result = Returned(Ptr(UptimeDataOf(1, "24h")), NilErr)

\* C3: when the first request obtains no response, the call returns that
\* failure at once and issues no second request.
C3_TransportFailureNoRetry ==
    (key # <<>> /\ body1.state = "none" /\ pc \notin {"idle", "req1"})
        => /\ Returns
           /\ err.kind \in {"creating request", "executing request"}
           /\ result = Returned(NilPtr, err)
           /\ Len(requests) <= 1
           /\ body2.state = "none"

C3_Witness ==
    /\ Returns /\ body1.state = "none"
    /\ err.kind = "executing request"
    /\ Len(requests) = 1
    /\ result = Returned(NilPtr, err)

\* C4: a call issues at most two requests; when the first response decodes
\* as the structured shape it issues exactly one and returns that result.
C4_AtMostTwoRequests ==
    /\ Len(requests) <= 2
    /\ (body1.state = "closed" /\ err = NilErr)
          => /\ Returns
             /\ Len(requests) = 1
             /\ body2.state = "none"
             /\ result = Returned(Ptr(data), NilErr)

C4_Witness ==
    /\ Returns /\ body1.state = "closed" /\ err = NilErr
    /\ Len(requests) = 1
    /\ result = Returned(Ptr(UptimeDataOf(1, "48h")), NilErr)
    /\ duration = "24h"

\* C5 as stated: when both attempts fail and the first failure is not an API
\* error, the call returns the second attempt's decode failure.
C5_SecondErrorReturned ==
    (Returns /\ FirstDecodeFailed /\ ~IsAPIError(err) /\ SecondDecodeFailed)
        => result.err = err2

\* C5 as amended: when both attempts fail and the first failure is not an API
\* error, the call returns the first attempt's failure (the original error).
C5_OriginalErrorReturned ==
    (Returns /\ FirstDecodeFailed /\ ~IsAPIError(err) /\ SecondDecodeFailed)
        => result = Returned(NilPtr, err)

C5_Witness ==
    /\ Returns /\ FirstDecodeFailed /\ SecondDecodeFailed
    /\ err.kind = "creating gzip reader"
    /\ err2.kind = "decoding response"
    /\ result.err = err

\* the JSON decoder met a malformed value
Malformed(e) ==
    e.kind = "decoding response"
        /\ e.Message \in {"invalid character", "unexpected EOF"}

\* C6: when the first response is a 2xx with malformed JSON and the second
\* attempt fails with an API error or with malformed JSON, the call returns
\* the first attempt's "decoding response" error after exactly two requests.
C6_FirstDecodeErrorReturned ==
    (Returns /\ FirstDecodeFailed /\ Malformed(err) /\ SecondDecodeFailed
        /\ (IsAPIError(err2) \/ Malformed(err2)))
        => /\ result = Returned(NilPtr, err)
           /\ result.err.kind = "decoding response"
           /\ Len(requests) = 2

C6_Witness ==
    /\ Returns /\ FirstDecodeFailed /\ SecondDecodeFailed
    /\ err = Wrapped("decoding response", "invalid character")
    /\ IsAPIError(err2) /\ err2.StatusCode = 404
    /\ result.err = err
    /\ Len(requests) = 2

\* a second request was issued, or is about to be
SecondIssued == Len(requests) = 2 \/ pc \in {"req2", "dec2"}

----------------------------------------------------------------------------
(* Properties of decodeResponse, checked under SpecDecode *)

Decoded == dpc = "done"

Is2xx(code) == code \in 200..299

\* the body text of a response: what a gzip-marked gzip stream unpacks to,
\* the body itself otherwise
bodyText(r) ==
    IF r.ce = "gzip" /\ gzipHeaderOK(r.body) THEN Tail(r.body) ELSE r.body

\* C8 as stated: every response with a status outside 200-299 yields an API
\* error with that status, its reason phrase and the whole body text.
C8_ErrorStatusYieldsAPIError ==
    (Decoded /\ ~Is2xx(dresp.status))
        => dout.err = APIError(dresp.status, StatusText(dresp.status),
                               bodyText(dresp))

\* the values of a body: its items that are not white space
valueIndexes(b) == {i \in 1..Len(b) : b[i].t # "ws"}

\* the body is one complete JSON value, white space around it allowed
validJSON(b) ==
    /\ Cardinality(valueIndexes(b)) = 1
    /\ \A i \in valueIndexes(b) : b[i].t \in {"num", "obj", "null"}

\* the body holds something, and is not valid JSON
structurallyInvalid(b) == valueIndexes(b) # {} /\ ~validJSON(b)

\* the first value of the body is malformed or cut off
firstValueMalformed(b) ==
    firstValue(b) # 0 /\ b[firstValue(b)].t \in {"open", "bad", "gz"}

C10_NoContentAlwaysSucceeds ==
    (Decoded /\ dresp.status = 204)
        => /\ dout.err = NilErr
           /\ dout.val = Zero(dtarget)
           /\ dout.read = 0

\* the body's first value is its last item and is cut off
endsMidValue(b) == firstValue(b) # 0 /\ firstValue(b) = Len(b) /\ b[Len(b)] = Open

\* C11 as stated: every 2xx response with an empty body yields no error and
\* leaves the target at its zero value; a 2xx body that ends in the middle of
\* a JSON value yields a decode error.
C11_EmptyBodyIsSuccess ==
    (Decoded /\ Is2xx(dresp.status))
        => /\ dresp.body = <<>>
                 => (dout.err = NilErr /\ dout.val = Zero(dtarget))
           /\ endsMidValue(bodyText(dresp))
                 => dout.err.kind \in DecodeErrorKinds

\* the body does not start with the gzip header
notGzipStream(b) == b = <<>> \/ b[1].t # "gz"

\* C12: a response marked Content-Encoding: gzip whose body is not a gzip
\* stream yields the error 'creating gzip reader', which is neither the JSON
\* decode error 'decoding response' nor an API error.
C12_BadGzipIsSetupError ==
    (Decoded /\ dresp.ce = "gzip" /\ notGzipStream(dresp.body))
        => /\ dout.err.kind = "creating gzip reader"
           /\ dout.err.kind # "decoding response"
           /\ ~IsAPIError(dout.err)

C12_Witness ==
    /\ Decoded
    /\ dresp = Response(200, "gzip", <<Num(1)>>)
    /\ dout.err = Wrapped("creating gzip reader", "gzip: invalid header")

\* C13: for every status and body b, a response marked Content-Encoding:
\* gzip whose body is the gzip compression of b has the same outcome (error
\* and decoded value) as an unmarked response with the same status and body b.
C13_GzipDecodesAsPlain ==
    (Decoded /\ dresp.ce = "gzip" /\ ~notGzipStream(dresp.body))
        => \E b \in SeqsUpTo(WireItems, MaxBodyLen) :
              /\ dresp.body = gzipOf(b)
              /\ dout.err = decodeResponse(Response(dresp.status, "", b), dtarget).err
              /\ dout.val = decodeResponse(Response(dresp.status, "", b), dtarget).val

C13_Witness ==
    /\ Decoded
    /\ dresp = Response(200, "gzip", gzipOf(<<Obj(1, "24h")>>))
    /\ dtarget = "UptimeData"
    /\ dout.err = NilErr
    /\ dout.val = UptimeDataOf(1, "24h")

----------------------------------------------------------------------------
(* A further property of GetEndpointUptimeData, checked under Spec *)

\* the uptime a response decodes to as a bare number, when it decodes
numberIn(r) ==
    LET b == bodyText(r) IN
    IF r.status = 204 \/ firstValue(b) = 0 THEN 0
    ELSE IF b[firstValue(b)].t = "num" THEN b[firstValue(b)].n ELSE 0

\* C28: when the first attempt failed with an API error and the second
\* attempt decodes without error, the API error is discarded: the call returns
\* no error and the uptime of the second response (its number n, or 0 for a
\* 204 or an empty body) with the requested duration.
C28_APIErrorDiscardedOnSecondSuccess ==
    [][(pc = "dec2" /\ IsAPIError(err) /\ err2' = NilErr)
          => /\ Is2xx(resp.status)
             /\ result' = Returned(Ptr(UptimeDataOf(numberIn(resp), duration)),
                                   NilErr)]_vars

C28_Witness ==
    /\ Returns /\ FirstDecodeFailed /\ IsAPIError(err) /\ err.StatusCode = 404
    /\ body2.state = "closed" /\ err2 = NilErr
    /\ result = Returned(Ptr(UptimeDataOf(1, "24h")), NilErr)

----------------------------------------------------------------------------
(* Properties of every public operation, checked under SpecOps *)

Op == call.op

Push == "PushExternalEndpointResult"

\* C14: when a public operation returns, every response body it obtained is
\* closed, on every exit path; no call returns with an open body or with a
\* response still in hand.
C14_NoOpenBodyOnReturn ==
    Returns
        => /\ body1.state \in {"none", "closed"}
           /\ body2.state \in {"none", "closed"}
           /\ resp = NoResponse

C14_Witness ==
    /\ Returns /\ Op = Push
    /\ IsAPIError(result.err) /\ result.err.StatusCode = 404
    /\ body1.state = "closed"

\* C15 as stated: GetEndpointUptimeData and GetEndpointResponseTimes, called
\* with a non-empty key and a duration other than 1h, 24h, 7d and 30d, return
\* a validation error for the field 'duration' and send no request.
C15_OnlyValidDurationsAccepted ==
    (Returns /\ Op \in {"GetEndpointUptimeData", "GetEndpointResponseTimes"}
       /\ key # <<>> /\ duration \notin {"1h", "24h", "7d", "30d"})
        => /\ result.err.kind = "ValidationError"
           /\ result.err.Field = "duration"
           /\ requests = <<>>

\* the operations that take a key
KeyedOps == ByKeyOps \cup {"GetEndpointUptimeData", Push}

\* C16: a call that returns a validation error has issued no request, and the
\* error names the offending field: 'key' for an empty key of a by-key
\* operation, 'name' for an empty name of GetEndpointStatus or GetSuiteStatus,
\* 'token' for an empty token of PushExternalEndpointResult; each of these
\* arguments, when empty, is rejected so.
C16_ValidationBeforeAnyRequest ==
    (Returns /\ Op # "ValidateDuration")
        => /\ result.err.kind = "ValidationError"
                 => /\ requests = <<>>
                    /\ body1 = NoBody /\ body2 = NoBody
                    /\ result.err.Field \in {"key", "name", "token"}
                    /\ result.err.Field = "key" => (Op \in KeyedOps /\ key = <<>>)
                    /\ result.err.Field = "name"
                          => (Op \in ByNameOps /\ call.name = <<>>)
                    /\ result.err.Field = "token" => (Op = Push /\ call.token = "")
           /\ (Op \in KeyedOps /\ key = <<>>)
                 => (result.err.kind = "ValidationError" /\ result.err.Field = "key")
           /\ (Op \in ByNameOps /\ call.name = <<>>)
                 => (result.err.kind = "ValidationError" /\ result.err.Field = "name")
           /\ (Op = Push /\ key # <<>> /\ call.token = "")
                 => (result.err.kind = "ValidationError" /\ result.err.Field = "token")

C16_Witness ==
    /\ Returns /\ Op = Push
    /\ key # <<>> /\ call.token = ""
    /\ result.err = ValidationError("token", "cannot be empty")
    /\ requests = <<>>

\* C17: ValidateDuration(d) returns nil exactly when d is one of '1h', '24h',
\* '7d', '30d', compared as it stands; for every other string, the empty one
\* included, it returns a ValidationError whose Field is 'duration'.
C17_ValidateDurationExact ==
    (Returns /\ Op = "ValidateDuration")
        => /\ result.err = NilErr <=> duration \in {"1h", "24h", "7d", "30d"}
           /\ result.err # NilErr
                 => (result.err.kind = "ValidationError"
                       /\ result.err.Field = "duration")

C17_Witness ==
    /\ Returns /\ Op = "ValidateDuration"
    /\ duration = " 24h"
    /\ result.err.kind = "ValidationError" /\ result.err.Field = "duration"

\* C18 as stated: a transport failure of any request of a public operation,
\* the first or the second, is what the call returns: the error 'executing
\* request' wrapping the cause, not another error.
C18_TransportFailureReported ==
    Returns
        => /\ err.kind = "executing request" => result.err = err
           /\ err2.kind = "executing request" => result.err = err2

\* C19: an operation that issues requests, called with valid arguments on a
\* client whose requests can be built and with a ctx that is already
\* cancelled, returns the transport failure 'executing request', and no
\* response is obtained or decoded in that call.
C19_CancelledCtxIsTransportFailure ==
    (call.ctx = "cancelled" /\ client.baseURL # BadBaseURL)
        => /\ body1 = NoBody /\ body2 = NoBody /\ resp = NoResponse
           /\ (Returns /\ result.err.kind # "ValidationError")
                 => /\ result.err = Wrapped("executing request", "context canceled")
                    /\ result.data = NilPtr

C19_Witness ==
    /\ Returns /\ Op = "GetEndpointStatus"
    /\ call.ctx = "cancelled"
    /\ key = <<"a", "-", "_", "b", "-">>
    /\ result = Returned(NilPtr, Wrapped("executing request", "context canceled"))

\* C20: every request issued carries the client's User-Agent, Accept:
\* application/json and Accept-Encoding: gzip; a request of the push operation
\* carries the Authorization 'Bearer ' followed by the token, and a request of
\* a GET operation carries no Authorization.
C20_HeadersOnEveryRequest ==
    \A i \in 1..Len(requests) :
        LET h == requests[i].header IN
        /\ h.UserAgent = client.userAgent
        /\ h.Accept = "application/json"
        /\ h.AcceptEncoding = "gzip"
        /\ Op = Push
              => (requests[i].method = "POST"
                    /\ h.Authorization = <<"Bearer ", call.token>>)
        /\ Op # Push
              => (requests[i].method = "GET" /\ h.Authorization = <<>>)

C20_Witness ==
    /\ Op = Push /\ Len(requests) = 1
    /\ client.userAgent = "MyApp/1.0"
    /\ requests[1].header =
          [UserAgent |-> "MyApp/1.0", Accept |-> "application/json",
           AcceptEncoding |-> "gzip", Authorization |-> <<"Bearer ", "potato">>]

\* the operations that issue requests
RequestOps == GetOps \cup {"GetEndpointUptimeData", Push}

C26_PushErrorCarriesPhraseAndBody ==
    [][pc = "pfin"
          => result'.err = IF Is2xx(resp.status) THEN NilErr
                           ELSE APIError(resp.status, StatusText(resp.status),
                                         resp.body)]_vars

\* the by-key operation a by-name operation hands over to
byKeyOf(op) ==
    IF op = "GetEndpointStatus" THEN "GetEndpointStatusByKey"
    ELSE "GetSuiteStatusByKey"

\* what the by-key operation op returns once it has the response r
byKeyResult(op, r) ==
    LET o == decodeResponse(r, opTarget(op)) IN
    IF o.err # NilErr THEN Returned(NilPtr, o.err) ELSE Returned(Ptr(o.val), NilErr)

\* C29: for every group and non-empty name, GetEndpointStatus(group, name)
\* issues the request and returns the result of
\* GetEndpointStatusByKey(GenerateKey(group, name)), and GetSuiteStatus
\* likewise with GetSuiteStatusByKey; it never returns the empty-key
\* validation error, the generated key never being empty.
C29_ByNameIsByKeyOfGeneratedKey ==
    [][(Op \in ByNameOps /\ call.name # <<>>)
          => LET k == GenerateKey(call.group, call.name)
                 outs == doRequest(client, call.ctx, "GET", getPath(byKeyOf(Op), k, ""))
             IN  /\ k # <<>> /\ key = k
                 /\ result.err.kind # "ValidationError"
                 /\ pc = "sreq"
                       => \E o \in outs :
                             /\ requests' = IF o.sent THEN <<o.req>> ELSE <<>>
                             /\ IF o.err # NilErr
                                THEN result' = Returned(NilPtr, o.err)
                                ELSE resp' = o.resp /\ pc' = "sdec"
                 /\ pc = "sdec" => result' = byKeyResult(byKeyOf(Op), resp)]_vars

C29_Witness ==
    /\ Returns /\ Op = "GetSuiteStatus"
    /\ call.group = <<"a", "/">> /\ call.name = <<"b", ".">>
    /\ Len(requests) = 1
    /\ requests[1].path = <<"/api/v1/suites", <<"a", "-", "_", "b", "-">>, "statuses">>
    /\ result.err = NilErr /\ ~result.data.nil

----------------------------------------------------------------------------
(* Properties of GenerateKey, checked under SpecKey *)

\* the replacement the key format prescribes
S(s) ==
    [i \in 1..Len(s) |->
        IF s[i] \in {"/", "_", ",", ".", "#", "+", "&"} THEN "-" ELSE s[i]]

\* C22: GenerateKey(group, name) is S(group) + '_' + S(name), S replacing each
\* '/', '_', ',', '.', '#', '+', '&' by '-' and leaving every other character
\* as it is; with an empty group it is '_' + S(name).
C22_GenerateKeyFormat ==
    gk.pc = "done"
        => /\ gk.key = S(gk.group) \o <<"_">> \o S(gk.name)
           /\ gk.group = <<>> => gk.key = <<"_">> \o S(gk.name)
           /\ \A i \in 1..Len(gk.group) :
                 gk.group[i] \in {"-", " ", "é"} => gk.key[i] = gk.group[i]
           /\ \A i \in 1..Len(gk.name) :
                 gk.name[i] \in {"-", " ", "é"}
                    => gk.key[Len(gk.group) + 1 + i] = gk.name[i]

C22_Witness ==
    /\ gk.pc = "done"
    /\ gk.group = <<"+", "é">> /\ gk.name = <<"&", " ">>
    /\ gk.key = <<"-", "é", "_", "-", " ">>

\* C30: the key has exactly one underscore, right after the Len(group)
\* characters of the group; its length is Len(group) + 1 + Len(name); and it
\* holds none of '/', ',', '.', '#', '+', '&'.
C30_KeyHasOneUnderscore ==
    gk.pc = "done"
        => /\ {i \in 1..Len(gk.key) : gk.key[i] = "_"} = {Len(gk.group) + 1}
           /\ Len(gk.key) = Len(gk.group) + 1 + Len(gk.name)
           /\ \A i \in 1..Len(gk.key) :
                 gk.key[i] \notin {"/", ",", ".", "#", "+", "&"}

C30_Witness ==
    /\ gk.pc = "done"
    /\ gk.group = <<"_", "/">> /\ gk.name = <<"_", "_">>
    /\ gk.key = <<"-", "-", "_", "-", "-">>

----------------------------------------------------------------------------
(* Properties of NewClient, checked under SpecNew *)

\* C25 as stated: for every sequence of options, NewClient and the operations
\* on the client it returns end by returning, never by panicking.
C25_NoPanic ==
    ~nc.panicked

\* C27 as stated: for every base URL passed to NewClient, the base address
\* stored does not end with '/', so that base address + path has no doubled
\* separator at the join.
C27_NoTrailingSeparator ==
    nc.pc \in {"built", "used"}
        => (nc.client.baseURL = <<>>
              \/ nc.client.baseURL[Len(nc.client.baseURL)] # "/")

----------------------------------------------------------------------------
(* Properties of concurrent calls, checked under SpecConc *)

\* what a call of op alone returns, given the outcomes got of its requests
aloneResult(op, got) ==
    IF got[1].err # NilErr THEN Returned(NilPtr, got[1].err)
    ELSE LET d1 == decodeResponse(got[1].resp, concTarget(op)) IN
    IF d1.err = NilErr THEN Returned(Ptr(d1.val), NilErr)
    ELSE IF op # "GetEndpointUptimeData" THEN Returned(NilPtr, d1.err)
    ELSE IF got[2].err # NilErr THEN Returned(NilPtr, d1.err)
    ELSE LET d2 == decodeResponse(got[2].resp, "float64") IN
    IF d2.err = NilErr THEN Returned(Ptr(UptimeDataOf(d2.val, ConcDuration)), NilErr)
    ELSE Returned(NilPtr, d1.err)

\* C23: under every interleaving of the calls on one client, what a call
\* returns is what it returns alone given its own arguments and the responses
\* to its own requests, every request it issues is the request of its own
\* arguments, and the client stays as it was.
C23_ConcurrentCallsIndependent ==
    /\ client = NewClient(GoodBaseURL, DefaultUserAgent)
    /\ \A p \in Callers :
          LET me == cc.callers[p] IN
          /\ \A i \in 1..Len(me.reqs) :
                me.reqs[i] = Request("GET", concPath(me.op, me.key),
                                     requestHeader(client))
          /\ Len(me.reqs) = Len(me.got)
          /\ me.pc = "done" => me.result = aloneResult(me.op, me.got)

C23_Witness ==
    /\ cc.callers[1].pc = "done" /\ cc.callers[2].pc = "done"
    /\ cc.callers[1].op = "GetEndpointUptimeData" /\ cc.callers[1].key = <<"k", "1">>
    /\ cc.callers[2].op = "GetEndpointStatusByKey" /\ cc.callers[2].key = <<"k", "2">>
    /\ Len(cc.callers[1].reqs) = 2
    /\ cc.callers[1].result = Returned(Ptr(UptimeDataOf(1, "24h")), NilErr)
    /\ IsAPIError(cc.callers[2].result.err)

====
